---------------------------- MODULE Spec2Model ----------------------------
(***************************************************************************)
(* Model of analise_educacao_superior.py: the cached loader/normaliser     *)
(* carregar_dados and the dashboard script that consumes its table.        *)
(*                                                                         *)
(* A DataFrame is [columns, data]: a sequence of column labels and a       *)
(* sequence of rows, each row a sequence of cells aligned with the labels  *)
(* (labels may repeat, as in pandas).  A cell is NaN, a number or a        *)
(* string.  The CSV on disk is [exists, parses, header, lines] with text   *)
(* tokens as cells.                                                        *)
(***************************************************************************)
EXTENDS Integers, Sequences, FiniteSets, TLC

VARIABLES
    file,            \* the CSV next to the script (environment)
    cache,           \* the st.cache_data entry of carregar_dados
    source,          \* ghost: content the body read when the entry was filled
    executed,        \* ghost: the last invocation ran the body of carregar_dados
    pc,              \* the last event: "start" | "loaded" (a direct call) |
                     \* "ran" (a script run) | "changed" | "cleared"
    df,              \* the table returned by the last invocation
    erros,           \* the st.* elements emitted by/replayed for carregar_dados
    organizacao_sel, \* sidebar selections of the last run
    tipo_rede_sel,
    municipio_sel,
    df_filtrado,     \* the filtered view of the last run
    total_ies,       \* the "Total de IES" metric of the last run
    ui,              \* the st.* elements emitted by the script after the load
    exc              \* "none", or the call whose exception ended the run

vars == <<file, cache, source, executed, pc, df, erros, organizacao_sel,
          tipo_rede_sel, municipio_sel, df_filtrado, total_ies, ui, exc>>

(***************************************************************************)
(* Bounds of the model.                                                    *)
(***************************************************************************)
MaxRows == 2
MaxMissing == 2

(***************************************************************************)
(* Cells.                                                                  *)
(***************************************************************************)
NaN == [k |-> "nan", n |-> 0, s |-> ""]
Num(i) == [k |-> "num", n |-> i, s |-> ""]
Str(t) == [k |-> "str", n |-> 0, s |-> t]

IsNa(c) == c.k = "nan"

Range(q) == {q[i] : i \in DOMAIN q}

(***************************************************************************)
(* Column tables of carregar_dados.                                        *)
(***************************************************************************)
required_original_cols ==
    << "NU_ANO_CENSO", "CO_MUNICIPIO_IES", "nome_municipio", "IN_CAPITAL_IES",
       "TP_ORGANIZACAO_ACADEMICA", "TP_REDE", "TP_CATEGORIA_ADMINISTRATIVA",
       "NO_IES", "SG_IES", "QT_DOC_TOTAL", "QT_TEC_TOTAL", "NO_MANTENEDORA",
       "QT_DOC_EX_SEM_GRAD", "QT_DOC_EX_GRAD", "QT_DOC_EX_ESP",
       "QT_DOC_EX_MEST", "QT_DOC_EX_DOUT",
       "QT_LIVRO_ELETRONICO",
       "QT_DOC_EX_FEMI",
       "QT_DOC_EX_MASC", "QT_DOC_EX_0_29", "QT_DOC_EX_30_34", "QT_DOC_EX_35_39",
       "QT_DOC_EX_40_44",
       "QT_DOC_EX_45_49",
       "QT_DOC_EX_50_54",
       "QT_DOC_EX_55_59",
       "QT_DOC_EX_60_MAIS" >>

rename_columns ==
    [c \in { "NU_ANO_CENSO", "nome_municipio", "IN_CAPITAL_IES",
             "TP_ORGANIZACAO_ACADEMICA", "TP_REDE", "TP_CATEGORIA_ADMINISTRATIVA",
             "NO_MANTENEDORA", "NO_IES", "SG_IES", "QT_DOC_TOTAL", "QT_TEC_TOTAL",
             "QT_DOC_EX_SEM_GRAD", "QT_DOC_EX_GRAD", "QT_DOC_EX_ESP",
             "QT_DOC_EX_MEST", "QT_DOC_EX_DOUT", "QT_LIVRO_ELETRONICO",
             "QT_DOC_EX_FEMI", "QT_DOC_EX_MASC" } |->
        CASE c = "NU_ANO_CENSO" -> "Ano do Censo"
          [] c = "nome_municipio" -> "Município"
          [] c = "IN_CAPITAL_IES" -> "É Capital?"
          [] c = "TP_ORGANIZACAO_ACADEMICA" -> "Organização Acadêmica"
          [] c = "TP_REDE" -> "Tipo de Rede"
          [] c = "TP_CATEGORIA_ADMINISTRATIVA" -> "Categoria Administrativa"
          [] c = "NO_MANTENEDORA" -> "Mantenedora"
          [] c = "NO_IES" -> "Nome da IES"
          [] c = "SG_IES" -> "Sigla da IES"
          [] c = "QT_DOC_TOTAL" -> "Total de Docentes"
          [] c = "QT_TEC_TOTAL" -> "Total de Técnicos"
          [] c = "QT_DOC_EX_SEM_GRAD" -> "Docentes Sem Graduação"
          [] c = "QT_DOC_EX_GRAD" -> "Docentes com Graduação"
          [] c = "QT_DOC_EX_ESP" -> "Docentes com Especialização"
          [] c = "QT_DOC_EX_MEST" -> "Docentes com Mestrado"
          [] c = "QT_DOC_EX_DOUT" -> "Docentes com Doutorado"
          [] c = "QT_LIVRO_ELETRONICO" -> "Total de Livros Eletrônicos"
          [] c = "QT_DOC_EX_FEMI" -> "Docentes Feminino"
          [] c = "QT_DOC_EX_MASC" -> "Docentes Masculino"]

\* (mutant) the fill list also names an age-bracket column
numeric_cols_to_fill_with_age ==
    << "Total de Docentes", "Total de Técnicos",
       "Docentes Sem Graduação", "Docentes com Graduação",
       "Docentes com Especialização",
       "Docentes com Mestrado", "Docentes com Doutorado",
       "Total de Livros Eletrônicos", "Docentes Feminino", "Docentes Masculino",
       "QT_DOC_EX_0_29" >>

numeric_cols_to_fill ==
    << "Total de Docentes", "Total de Técnicos",
       "Docentes Sem Graduação", "Docentes com Graduação",
       "Docentes com Especialização",
       "Docentes com Mestrado", "Docentes com Doutorado",
       "Total de Livros Eletrônicos", "Docentes Feminino", "Docentes Masculino" >>

capital_map == (1 :> "Sim") @@ (0 :> "Não")

organizacao_map ==
    (1 :> "Universidade") @@ (2 :> "Centro Universitário") @@
    (3 :> "Faculdade") @@
    (4 :> "Instituto Federal de Educação, Ciência e Tecnologia (IF)") @@
    (5 :> "Centro Federal de Educação Tecnológica (CEFET)") @@
    (99 :> "Outra")

rede_map == (1 :> "Pública") @@ (2 :> "Privada")

categoria_map ==
    (1 :> "Pública Federal") @@ (2 :> "Pública Estadual") @@
    (3 :> "Pública Municipal") @@
    (4 :> "Privada com fins lucrativos") @@ (5 :> "Privada sem fins lucrativos") @@
    (6 :> "Privada - Particular em sentido estrito") @@
    (7 :> "Especial") @@ (8 :> "Privada comunitária") @@
    (9 :> "Privada confessional")

NaoDefinido == "Não Definido"

(***************************************************************************)
(* DataFrame helpers (pandas).                                             *)
(***************************************************************************)
EmptyDataFrame == [columns |-> << >>, data |-> << >>]

\* `col in df.columns`
In(col, columns) == \E j \in DOMAIN columns : columns[j] = col

\* the positions a label selects; more than one makes df[col] a DataFrame
Positions(col, columns) == {j \in DOMAIN columns : columns[j] = col}

Ambiguous(col, columns) == Cardinality(Positions(col, columns)) > 1

\* (mutant) only the table without columns is empty
empty_no_columns(d) == Len(d.columns) = 0

\* df.empty: no column or no row
empty(d) == Len(d.columns) = 0 \/ Len(d.data) = 0

\* the Series df[col] of a label that selects one column
Column(d, col) ==
    LET j == CHOOSE p \in Positions(col, d.columns) : TRUE
    IN  [i \in DOMAIN d.data |-> d.data[i][j]]

\* df[col] = s for a label that selects one column
SetCol(d, col, s) ==
    [d EXCEPT !.data =
        [i \in DOMAIN d.data |->
            [j \in DOMAIN d.columns |->
                IF d.columns[j] = col THEN s[i] ELSE d.data[i][j]]]]

fillna(c, v) == IF IsNa(c) THEN v ELSE c

(***************************************************************************)
(* pd.read_csv(sep=';', encoding='utf-8'): the text of a numeric literal   *)
(* and its value, the tokens read as missing, and the per-column type      *)
(* inference: a column whose every cell is missing or a numeric literal is *)
(* numeric, any other column keeps the text of its cells (dtype object).   *)
(***************************************************************************)
NumVal ==
    ("0" :> 0) @@ ("1" :> 1) @@ ("2" :> 2) @@ ("3" :> 3) @@ ("5" :> 5) @@
    ("99" :> 99) @@ ("12" :> 12) @@ ("-3" :> -3) @@ ("2023" :> 2023) @@
    ("5300108" :> 5300108)

NaTokens == {"", "NA"}

NumericColumn(f, j) ==
    \A i \in DOMAIN f.lines :
        f.lines[i][j] \in NaTokens \/ f.lines[i][j] \in DOMAIN NumVal

ParseCell(f, i, j) ==
    LET t == f.lines[i][j]
    IN  IF t \in NaTokens THEN NaN
        ELSE IF NumericColumn(f, j) THEN Num(NumVal[t])
        ELSE Str(t)

read_csv(f) ==
    [columns |-> f.header,
     data |-> [i \in DOMAIN f.lines |->
                [j \in DOMAIN f.header |-> ParseCell(f, i, j)]]]

(***************************************************************************)
(* The steps of carregar_dados.                                            *)
(***************************************************************************)
Msg(level, text, names) == [level |-> level, text |-> text, names |-> names]

\* (mutant) reports the first missing column only
missing_cols_first(d) ==
    LET m == SelectSeq(required_original_cols, LAMBDA col : ~In(col, d.columns))
    IN  IF m = << >> THEN m ELSE << Head(m) >>

missing_cols(d) ==
    SelectSeq(required_original_cols, LAMBDA col : ~In(col, d.columns))

rename(d) ==
    [d EXCEPT !.columns =
        [j \in DOMAIN d.columns |->
            IF d.columns[j] \in DOMAIN rename_columns
            THEN rename_columns[d.columns[j]]
            ELSE d.columns[j]]]

\* pd.to_numeric(errors='coerce') on one cell
to_numeric(c) ==
    IF c.k = "str"
    THEN IF c.s \in DOMAIN NumVal THEN Num(NumVal[c.s]) ELSE NaN
    ELSE c

\* (mutant) clamps a negative count to 0
numeric_fill_cell_clamped(c) ==
    LET v == fillna(to_numeric(c), Num(0))
    IN  IF v.k = "num" /\ v.n < 0 THEN Num(0) ELSE v

numeric_fill_cell(c) == fillna(to_numeric(c), Num(0))

RECURSIVE fill_numeric(_, _)
fill_numeric(d, k) ==
    IF k > Len(numeric_cols_to_fill) THEN d
    ELSE LET col == numeric_cols_to_fill[k]
         IN  fill_numeric(IF In(col, d.columns)
                          THEN SetCol(d, col,
                                      [i \in DOMAIN d.data |->
                                          numeric_fill_cell(Column(d, col)[i])])
                          ELSE d,
                          k + 1)

\* Series.map(dict) on one cell: a key matches a number equal to it
map_cell(c, m) == IF c.k = "num" /\ c.n \in DOMAIN m THEN Str(m[c.n]) ELSE NaN

recode_cell(c, m) == fillna(map_cell(c, m), Str(NaoDefinido))

recode(d, col, m) ==
    IF In(col, d.columns)
    THEN SetCol(d, col,
                [i \in DOMAIN d.data |-> recode_cell(Column(d, col)[i], m)])
    ELSE d

recode_all(d) ==
    recode(recode(recode(recode(d,
        "É Capital?", capital_map),
        "Organização Acadêmica", organizacao_map),
        "Tipo de Rede", rede_map),
        "Categoria Administrativa", categoria_map)

categorical_cols ==
    << "É Capital?", "Organização Acadêmica", "Tipo de Rede",
       "Categoria Administrativa" >>

Result(e, d, m) == [exc |-> e, df |-> d, erros |-> m]

\* the try block of carregar_dados; exc names the call that raised
carregar_dados_try(f) ==
    IF ~f.exists
    THEN Result("none", EmptyDataFrame,
                << Msg("error", "não foi encontrado", << >>),
                   Msg("error", "coloque o arquivo CSV na mesma pasta", << >>) >>)
    ELSE IF ~f.parses
    THEN Result("read_csv", EmptyDataFrame, << >>)
    ELSE LET d0 == read_csv(f)
             missing == missing_cols(d0)
             d1 == rename(d0)
         IN  IF missing # << >>
             THEN Result("none", EmptyDataFrame,
                         << Msg("error", "colunas essenciais não foram encontradas",
                                missing) >>)
             ELSE IF \E k \in DOMAIN numeric_cols_to_fill :
                        Ambiguous(numeric_cols_to_fill[k], d1.columns)
             THEN Result("to_numeric", EmptyDataFrame, << >>)
             ELSE IF \E k \in DOMAIN categorical_cols :
                        Ambiguous(categorical_cols[k], d1.columns)
             THEN Result("map", EmptyDataFrame, << >>)
             ELSE Result("none", recode_all(fill_numeric(d1, 1)), << >>)

\* (mutant) no except clause: the exception leaves the function
carregar_dados_no_except(f) == carregar_dados_try(f)

\* the function with its except clause
carregar_dados(f) ==
    LET r == carregar_dados_try(f)
    IN  IF r.exc # "none"
        THEN Result("none", EmptyDataFrame,
                    r.erros \o
                    << Msg("error", "erro inesperado ao carregar ou processar",
                           << r.exc >>),
                       Msg("info", "Verifique se o arquivo CSV está no formato correto",
                           << >>) >>)
        ELSE r

(***************************************************************************)
(* The CSV files the model reads.  A line is built from the per-row text   *)
(* of its column groups: the four code columns, the count columns, the     *)
(* municipality and the institution.                                       *)
(***************************************************************************)
RowText(cap, org, rede, categ, num, mun, ies) ==
    [cap |-> cap, org |-> org, rede |-> rede, categ |-> categ,
     num |-> num, mun |-> mun, ies |-> ies]

Tok(col, p) ==
    CASE col = "NU_ANO_CENSO" -> "2023"
      [] col = "CO_MUNICIPIO_IES" -> "5300108"
      [] col \in {"nome_municipio", "Município"} -> p.mun
      [] col \in {"IN_CAPITAL_IES", "É Capital?"} -> p.cap
      [] col = "TP_ORGANIZACAO_ACADEMICA" -> p.org
      [] col = "TP_REDE" -> p.rede
      [] col = "TP_CATEGORIA_ADMINISTRATIVA" -> p.categ
      [] col \in {"NO_IES", "SG_IES", "NO_MANTENEDORA"} -> p.ies
      [] OTHER -> p.num

NoFile == [exists |-> FALSE, parses |-> FALSE, header |-> << >>, lines |-> << >>]

\* a file pd.read_csv cannot decode or tokenize
BadFile == [exists |-> TRUE, parses |-> FALSE, header |-> << >>, lines |-> << >>]

CsvFile(header, ps) ==
    [exists |-> TRUE, parses |-> TRUE, header |-> header,
     lines |-> [i \in DOMAIN ps |-> [j \in DOMAIN header |-> Tok(header[j], ps[i])]]]

SeqsUpTo(S, n) == UNION {[1..k -> S] : k \in 0..n}

RECURSIVE SubsetsUpTo(_, _)
SubsetsUpTo(S, k) ==
    IF k = 0 THEN {{}}
    ELSE LET P == SubsetsUpTo(S, k - 1)
         IN  P \cup {s \cup {c} : s \in P, c \in S}

\* the required columns without `missing`, then the extra columns
HeaderOf(missing, extra) ==
    SelectSeq(required_original_cols, LAMBDA c : c \notin missing) \o extra

FullHeader == HeaderOf({}, << >>)

\* columns a file may carry besides the required ones: a required name in
\* another case, and names that are already display names
ExtraHeaders ==
    { << >>, << "qt_doc_total" >>, << "Total de Docentes" >>,
      << "É Capital?" >>, << "Município" >> }

CodeTokens == {"0", "1", "2", "5", "", "x"}
CountTokens == {"12", "-3", "", "NA", "x"}

\* lines that vary the text of the code columns and of the count columns
LoadRows ==
    {RowText(c, c, c, c, n, "Brasília", "UnB") : c \in CodeTokens, n \in CountTokens}

StdRow == RowText("1", "1", "2", "5", "", "Brasília", "UnB")

\* a file is absent, unreadable, complete with any lines, or one line under
\* a header that lacks required columns or carries an extra one
LoadFile(f) ==
    \/ f = NoFile
    \/ f = BadFile
    \/ \E ps \in SeqsUpTo(LoadRows, MaxRows) : f = CsvFile(FullHeader, ps)
    \/ \E m \in SubsetsUpTo(Range(required_original_cols), MaxMissing) :
          f = CsvFile(HeaderOf(m, << >>), << StdRow >>)
    \/ \E m \in SubsetsUpTo(Range(required_original_cols), 1), e \in ExtraHeaders :
          f = CsvFile(HeaderOf(m, e), << StdRow >>)

(***************************************************************************)
(* Direct calls of carregar_dados on a file.                               *)
(***************************************************************************)
NoCache == [full |-> FALSE, df |-> EmptyDataFrame, erros |-> << >>]

Start ==
    /\ cache = NoCache
    /\ source = NoFile
    /\ executed = FALSE
    /\ pc = "start"
    /\ df = EmptyDataFrame
    /\ erros = << >>
    /\ organizacao_sel = Str("Todas")
    /\ tipo_rede_sel = Str("Todas")
    /\ municipio_sel = Str("Todos")
    /\ df_filtrado = EmptyDataFrame
    /\ total_ies = 0
    /\ ui = << >>
    /\ exc = "none"

InitLoad == LoadFile(file) /\ Start

Load ==
    /\ pc = "start"
    /\ \E r \in {carregar_dados(file)} :
           /\ df' = r.df
           /\ erros' = r.erros
           /\ exc' = r.exc
    /\ pc' = "loaded"
    /\ executed' = TRUE
    /\ source' = file
    /\ UNCHANGED <<file, cache, organizacao_sel, tipo_rede_sel, municipio_sel,
                   df_filtrado, total_ies, ui>>

NextLoad == Load

SpecLoad == InitLoad /\ [][NextLoad]_vars

(***************************************************************************)
(* The script after the load: sidebar, filters, metrics, charts, table.    *)
(***************************************************************************)
Todas == Str("Todas")
Todos == Str("Todos")

Element(level, text) == Msg(level, text, << >>)

\* == on cells: NaN equals nothing, itself included
CellEq(a, b) == ~IsNa(a) /\ ~IsNa(b) /\ a = b

\* Series.unique(): the distinct cells, NaN among them
unique(d, col) == Range(Column(d, col))

\* Series.nunique(): the distinct cells that are not NaN
nunique(d, col) == Cardinality({c \in unique(d, col) : ~IsNa(c)})

\* sorted() raises TypeError when it compares a str with a float
Sortable(u) == \A a, b \in u : (a.k = "str") = (b.k = "str")

\* one sidebar filter: the options of its selectbox, or the call that raised
sidebar_filter(d, col, all) ==
    IF ~In(col, d.columns)
    THEN [exc |-> "none", options |-> {all},
          ui |-> << Element("warning", col) >>]
    ELSE IF Ambiguous(col, d.columns)
    THEN [exc |-> "unique", options |-> {}, ui |-> << >>]
    ELSE IF ~Sortable(unique(d, col))
    THEN [exc |-> "sorted", options |-> {}, ui |-> << >>]
    ELSE [exc |-> "none", options |-> {all} \cup unique(d, col),
          ui |-> << Element("selectbox", col) >>]

\* df_filtrado[df_filtrado[col] == sel]
filter(d, col, sel, all) ==
    IF sel # all /\ In(col, d.columns)
    THEN LET j == CHOOSE p \in Positions(col, d.columns) : TRUE
         IN  [d EXCEPT !.data = SelectSeq(d.data, LAMBDA row : CellEq(row[j], sel))]
    ELSE d

\* (mutant) the Município filter is not applied
apply_filters_no_municipio(d, o, t, m) ==
    filter(filter(d, "Organização Acadêmica", o, Todas), "Tipo de Rede", t, Todas)

apply_filters(d, o, t, m) ==
    filter(filter(filter(d, "Organização Acadêmica", o, Todas),
                  "Tipo de Rede", t, Todas),
           "Município", m, Todos)

HasAll(d, cols) == \A k \in DOMAIN cols : In(cols[k], d.columns)

docentes_cols_for_plot ==
    << "Docentes Sem Graduação", "Docentes com Graduação",
       "Docentes com Especialização", "Docentes com Mestrado",
       "Docentes com Doutorado" >>

group_cols ==
    << "Ano do Censo", "Município", "Nome da IES", "Sigla da IES",
       "Organização Acadêmica", "Tipo de Rede", "Categoria Administrativa" >>

measures == << "Total de Docentes", "Total de Técnicos" >>

key_metrics ==
    << Element("metric", "Total de IES"), Element("metric", "Total de Docentes"),
       Element("metric", "Municípios c/ IES"),
       Element("metric", "Total de Técnico-administrativos"),
       Element("dataframe", "Prévia dos Dados Filtrados") >>

fig_ies_municipio(v) ==
    IF HasAll(v, << "Município", "Nome da IES" >>) /\ ~empty(v)
    THEN << Element("chart", "Total de IES por Município") >>
    ELSE << >>

fig_org_acad(v) ==
    IF In("Organização Acadêmica", v.columns)
    THEN << Element("chart", "Quantidade de Organizações Acadêmicas") >>
    ELSE << Element("warning", "Total de IES por Município") >>

fig_tec_mantenedora(v) ==
    IF HasAll(v, << "Mantenedora", "Total de Técnicos" >>) /\ ~empty(v)
    THEN << Element("chart", "Quantidade Total de Técnicos por Mantenedora") >>
    ELSE << Element("warning", "Quantidade Total de Técnicos por Mantenedora") >>

fig_docentes_org_sexo(v) ==
    IF HasAll(v, << "Organização Acadêmica", "Docentes Feminino",
                    "Docentes Masculino" >>) /\ ~empty(v)
    THEN << Element("chart",
                    "Quantidade de Docentes por Sexo e Organização Acadêmica") >>
    ELSE << Element("warning",
                    "Quantidade de Docentes por Sexo e Organização Acadêmica") >>

fig_cat_admin(v) ==
    IF In("Categoria Administrativa", v.columns) /\ ~empty(v)
    THEN << Element("chart",
                    "Distribuição de Instituições por Categoria Administrativa") >>
    ELSE << Element("warning",
                    "Distribuição de Instituições por Categoria Administrativa") >>

\* the guard reads docentes_cols_for_plot, the groupby reads 'Tipo de Rede'
docentes_por_tipo_raises(v) ==
    HasAll(v, docentes_cols_for_plot) /\ ~empty(v) /\ ~In("Tipo de Rede", v.columns)

docentes_por_tipo(v) ==
    IF HasAll(v, docentes_cols_for_plot) /\ ~empty(v)
    THEN << Element("chart", "Total de Docentes por Nível de Formação") >>
    ELSE << Element("warning", "Total de Docentes por Nível de Formação") >>

fig_treemap_livros(v) ==
    IF HasAll(v, << "Organização Acadêmica", "Total de Livros Eletrônicos" >>)
       /\ ~empty(v)
    THEN << Element("chart", "Gráfico de Árvore") >>
    ELSE << Element("warning", "Gráfico de Árvore") >>

ies_summary_table(v) ==
    IF ~empty(v)
    THEN IF HasAll(v, group_cols \o measures)
         THEN << Element("dataframe", "Tabela Detalhada das IES") >>
         ELSE << Element("warning", "Tabela Detalhada das IES") >>
    ELSE << Element("info", "Nenhum dado filtrado para exibir na tabela detalhada") >>

Page(e, v, n, u) == [exc |-> e, df_filtrado |-> v, total_ies |-> n, ui |-> u]

\* the block under `if not df.empty`, after the sidebar
page(d, o, t, m) ==
    LET v == apply_filters(d, o, t, m)
        n == IF In("Nome da IES", v.columns) THEN nunique(v, "Nome da IES") ELSE 0
        upto4 == key_metrics \o fig_ies_municipio(v) \o fig_org_acad(v)
                 \o fig_tec_mantenedora(v) \o fig_docentes_org_sexo(v)
                 \o fig_cat_admin(v)
    IN  IF empty(v)
        THEN Page("none", v, 0,
                  << Element("info", "Nenhum registro encontrado para os filtros") >>)
        ELSE IF docentes_por_tipo_raises(v)
        THEN Page("groupby", v, n, upto4)
        ELSE Page("none", v, n,
                  upto4 \o docentes_por_tipo(v) \o fig_treemap_livros(v)
                  \o ies_summary_table(v))

(***************************************************************************)
(* st.cache_data: the entry of carregar_dados is keyed by the function and *)
(* its (no) arguments; a hit returns the stored table and replays the      *)
(* stored elements.                                                        *)
(***************************************************************************)
\* (mutant) the entry is keyed by the content of the file
cache_lookup_by_content(c, f) == c.full /\ source = f

\* (mutant) no cache: every run is a miss
cache_lookup_never(c, f) == FALSE

cache_lookup(c, f) == c.full

\* (mutant) only a table with rows is stored
cache_store_rows_only(c, r) ==
    IF r.exc = "none" /\ ~empty(r.df)
    THEN [full |-> TRUE, df |-> r.df, erros |-> r.erros]
    ELSE c

cache_store(c, r) ==
    IF r.exc = "none" THEN [full |-> TRUE, df |-> r.df, erros |-> r.erros] ELSE c

\* (mutant) the filters are applied to df itself: df = df[df[col] == sel]
df_after_filters_in_place(d, v) == v

\* the table the name df holds after the block: line 169 copies it into
\* df_filtrado, lines 173-179 rebind df_filtrado to new tables, and the one
\* column assignment of the block (line 335) writes to docentes_long, which
\* melt built from a groupby of df_filtrado
df_after_filters(d, v) == d

NoSelection ==
    /\ organizacao_sel' = Todas
    /\ tipo_rede_sel' = Todas
    /\ municipio_sel' = Todos
    /\ df_filtrado' = EmptyDataFrame
    /\ total_ies' = 0

\* one run of the script, top to bottom
ScriptRun ==
    /\ pc # "loaded"
    /\ \E hit \in {cache_lookup(cache, file)} :
       \E r \in {IF hit THEN Result("none", cache.df, cache.erros)
                 ELSE carregar_dados(file)} :
       \E org \in {sidebar_filter(r.df, "Organização Acadêmica", Todas)} :
       \E rede \in {sidebar_filter(r.df, "Tipo de Rede", Todas)} :
       \E mun \in {sidebar_filter(r.df, "Município", Todos)} :
           /\ cache' = IF hit THEN cache ELSE cache_store(cache, r)
           /\ source' = IF hit THEN source ELSE file
           /\ executed' = ~hit
           /\ erros' = r.erros
           /\ IF r.exc # "none"
              THEN NoSelection /\ df' = r.df /\ ui' = << >> /\ exc' = r.exc
              ELSE IF empty(r.df)
              THEN /\ NoSelection
                   /\ df' = r.df
                   /\ ui' = << Element("info", "O aplicativo não pôde carregar os dados") >>
                   /\ exc' = "none"
              ELSE IF org.exc # "none"
              THEN NoSelection /\ df' = r.df /\ ui' = << >> /\ exc' = org.exc
              ELSE IF rede.exc # "none"
              THEN NoSelection /\ df' = r.df /\ ui' = org.ui /\ exc' = rede.exc
              ELSE IF mun.exc # "none"
              THEN /\ NoSelection
                   /\ df' = r.df
                   /\ ui' = org.ui \o rede.ui
                   /\ exc' = mun.exc
              ELSE \E o \in org.options, t \in rede.options, m \in mun.options :
                      \E p \in {page(r.df, o, t, m)} :
                          /\ organizacao_sel' = o
                          /\ tipo_rede_sel' = t
                          /\ municipio_sel' = m
                          /\ df_filtrado' = p.df_filtrado
                          /\ df' = df_after_filters(r.df, p.df_filtrado)
                          /\ total_ies' = p.total_ies
                          /\ ui' = org.ui \o rede.ui \o mun.ui \o p.ui
                          /\ exc' = p.exc
    /\ pc' = "ran"
    /\ UNCHANGED file

(***************************************************************************)
(* A dashboard session over one file.                                      *)
(***************************************************************************)
Institution(name, org, rede, categ) ==
    [name |-> name, org |-> org, rede |-> rede, categ |-> categ]

Institutions ==
    { Institution("UnB", "1", "1", "1"), Institution("UCB", "1", "2", "5"),
      Institution("IESB", "2", "2", "4") }

DashRows ==
    {RowText("1", i.org, i.rede, i.categ, "12", m, i.name) :
        i \in Institutions, m \in {"Brasília", "Goiânia", ""}}

DashFile(f) ==
    \E ps \in SeqsUpTo(DashRows, MaxRows), e \in {<< >>, << "Município" >>} :
        f = CsvFile(HeaderOf({}, e), ps)

InitDash == DashFile(file) /\ Start

NextDash == ScriptRun

SpecDash == InitDash /\ [][NextDash]_vars

(***************************************************************************)
(* A process over a file that is replaced between runs.                    *)
(***************************************************************************)
SessionFiles ==
    { NoFile, BadFile,
      CsvFile(HeaderOf({"QT_DOC_TOTAL"}, << >>), << StdRow >>),
      CsvFile(HeaderOf({}, << "Total de Docentes" >>), << StdRow >>),
      CsvFile(FullHeader, << >>),
      CsvFile(FullHeader, << StdRow >>),
      CsvFile(FullHeader,
              << RowText("1", "1", "1", "1", "12", "Brasília", "UnB"),
                 RowText("0", "2", "2", "4", "x", "Goiânia", "IESB") >>),
      CsvFile(FullHeader,
              << RowText("1", "1", "1", "1", "12", "Brasília", "UnB"),
                 RowText("0", "2", "2", "4", "12", "", "IESB") >>) }

Init == file \in SessionFiles /\ Start

\* the file is put in place, removed or rewritten
ChangeFile ==
    /\ \E f \in SessionFiles : f # file /\ file' = f
    /\ pc' = "changed"
    /\ UNCHANGED <<cache, source, executed, df, erros, organizacao_sel,
                   tipo_rede_sel, municipio_sel, df_filtrado, total_ies, ui, exc>>

\* the cache is cleared (or the process restarted)
ClearCache ==
    /\ cache.full
    /\ cache' = NoCache
    /\ pc' = "cleared"
    /\ UNCHANGED <<file, source, executed, df, erros, organizacao_sel,
                   tipo_rede_sel, municipio_sel, df_filtrado, total_ies, ui, exc>>

Next == ScriptRun \/ ChangeFile \/ ClearCache

Spec == Init /\ [][Next]_vars

(***************************************************************************)
(* Claims about carregar_dados, stated on the text of the file.            *)
(***************************************************************************)
HasRequired(f) ==
    f.exists /\ f.parses /\
    \A k \in DOMAIN required_original_cols : In(required_original_cols[k], f.header)

\* the load returned a table and reported nothing
Succeeded == pc = "loaded" /\ exc = "none" /\ erros = << >>

\* the value of a cell's text read as a code, and the label a lookup table
\* gives it
ExpectedLabel(t, m) ==
    IF t \in DOMAIN NumVal /\ NumVal[t] \in DOMAIN m THEN m[NumVal[t]] ELSE NaoDefinido

LabelsOf(m) == {m[c] : c \in DOMAIN m} \cup {NaoDefinido}

MapOf(col) ==
    CASE col = "É Capital?" -> capital_map
      [] col = "Organização Acadêmica" -> organizacao_map
      [] col = "Tipo de Rede" -> rede_map
      [] col = "Categoria Administrativa" -> categoria_map

ExpectedCount(t) == IF t \in DOMAIN NumVal THEN Num(NumVal[t]) ELSE Num(0)

\* C1: for a file that exists, parses and has every required column, the
\* returned table has one row per line of the file, in the order of the file
\* (the cells no step rewrites are those of the same line).
C1_RowsPreserved ==
    (pc = "loaded" /\ HasRequired(file)) =>
        /\ Len(df.data) = Len(file.lines)
        /\ Len(df.columns) = Len(file.header)
        /\ \A i \in DOMAIN df.data : \A j \in DOMAIN df.columns :
              (df.columns[j] \notin Range(numeric_cols_to_fill)
                                    \cup Range(categorical_cols))
                  => df.data[i][j] = read_csv(file).data[i][j]

\* C2: a file that lacks required columns yields one error naming exactly the
\* missing required columns (names compared exactly), and the empty table.
C2_MissingColumnsReported ==
    (pc = "loaded" /\ file.exists /\ file.parses /\ ~HasRequired(file)) =>
        /\ exc = "none"
        /\ df = EmptyDataFrame
        /\ Len(erros) = 1
        /\ erros[1].level = "error"
        /\ erros[1].text = "colunas essenciais não foram encontradas"
        /\ Range(erros[1].names) =
              Range(required_original_cols) \ Range(file.header)
        /\ Len(erros[1].names) = Cardinality(Range(erros[1].names))

C2_Witness ==
    /\ pc = "loaded"
    /\ Len(erros) = 1
    /\ Range(erros[1].names) = {"QT_DOC_TOTAL", "TP_REDE"}
    /\ Len(file.lines) = 1
    /\ df = EmptyDataFrame

\* C3: after a successful load every cell of the four categorical columns is
\* the label its column's table gives the source code of that cell, and the
\* sentinel for any other source value; so it is a defined label or the
\* sentinel.
C3_CategoricalRecoded ==
    Succeeded =>
        \A i \in DOMAIN df.data : \A j \in DOMAIN df.columns :
            df.columns[j] \in Range(categorical_cols) =>
                /\ df.data[i][j] =
                      Str(ExpectedLabel(file.lines[i][j], MapOf(df.columns[j])))
                /\ df.data[i][j].k = "str"
                /\ df.data[i][j].s \in LabelsOf(MapOf(df.columns[j]))

\* C4: after a successful load every cell of the ten count columns is a
\* number: 0 when the source cell is empty, missing or no number, and the
\* source value itself otherwise, negative values included.
C4_CountsFilled ==
    Succeeded =>
        \A i \in DOMAIN df.data : \A j \in DOMAIN df.columns :
            df.columns[j] \in Range(numeric_cols_to_fill) =>
                /\ df.data[i][j].k = "num"
                /\ df.data[i][j] = ExpectedCount(file.lines[i][j])
                /\ (\A a \in DOMAIN file.lines :
                        ExpectedCount(file.lines[a][j]).n >= 0)
                       => df.data[i][j].n >= 0

C4_Witness ==
    /\ Succeeded
    /\ Len(df.data) = 2
    /\ \E j \in DOMAIN df.columns :
          /\ df.columns[j] = "Total de Docentes"
          /\ file.lines[1][j] = "x" /\ df.data[1][j] = Num(0)
          /\ file.lines[2][j] = "-3" /\ df.data[2][j] = Num(-3)

(***************************************************************************)
(* Claims about the cache and the script run.                              *)
(***************************************************************************)
\* a header that already carries a display name the fill or the recoding
\* reads: the rename then gives two columns that label
RenameCollides(f) ==
    \E c \in Range(numeric_cols_to_fill) \cup Range(categorical_cols) :
        In(c, f.header)

LoadFails(f) == ~HasRequired(f) \/ RenameCollides(f)

HasElement(q, level, text) ==
    \E k \in DOMAIN q : q[k].level = level /\ q[k].text = text

Degraded == ui = << Element("info", "O aplicativo não pôde carregar os dados") >>

\* C5 (as claimed): a run that finds the content changed since the cached
\* table was computed runs the loader again and returns the table of the new
\* content.
C5_ChangedContentRecomputed ==
    (pc = "ran" /\ file # source) =>
        executed /\ df = carregar_dados(file).df

\* C5 (amended): while the cache entry exists a run neither runs the loader
\* nor replaces the entry, whatever the file holds now: it returns the stored
\* table; the loader runs on the current content only when no entry exists.
C5_EntryOutlivesContent ==
    [][(pc' = "ran") =>
          IF cache.full
          THEN ~executed' /\ cache' = cache /\ df' = cache.df /\ source' = source
          ELSE executed' /\ df' = carregar_dados(file).df /\ source' = file]_vars

C5_Witness ==
    /\ pc = "ran"
    /\ ~executed
    /\ file # source
    /\ ~empty(df)
    /\ df = carregar_dados(source).df
    /\ df # carregar_dados(file).df

\* C6: a run over the content the entry was computed from is served from the
\* cache, the loader does not run, and the table returned is the table a
\* direct call on that content returns.
C6_SameContentServedFromCache ==
    [][(cache.full /\ file = source /\ pc' = "ran") =>
          /\ ~executed'
          /\ df' = cache.df
          /\ df' = carregar_dados(file').df
          /\ erros' = carregar_dados(file').erros]_vars

C6_Witness ==
    /\ pc = "ran"
    /\ ~executed
    /\ file = source
    /\ ~empty(df)
    /\ df = cache.df
    /\ df = carregar_dados(file).df

\* C7: when the loader runs and fails (no file, unreadable file, missing
\* columns, an exception while normalising) no exception leaves it: it
\* emits an error, returns the empty table, and the run shows only the
\* informational message of the empty-dataset branch.
C7_FailuresCaught ==
    (pc = "ran" /\ executed /\ LoadFails(source)) =>
        /\ exc = "none"
        /\ df = EmptyDataFrame
        /\ \E k \in DOMAIN erros : erros[k].level = "error"
        /\ Degraded
        /\ df_filtrado = EmptyDataFrame

C7_Witness ==
    /\ pc = "ran"
    /\ executed
    /\ source = BadFile
    /\ exc = "none"
    /\ HasElement(erros, "error", "erro inesperado ao carregar ou processar")
    /\ Degraded

(***************************************************************************)
(* Claims about the dashboard.                                             *)
(***************************************************************************)
\* the load of this run (or the cached one) returned rows and no message
LoadedTable == pc = "ran" /\ erros = << >> /\ ~empty(df)

Visualization(name, cols) == [name |-> name, cols |-> cols]

\* each visualization that has a warning, and the columns it reads
Visualizations ==
    { Visualization("Total de IES por Município", << "Município", "Nome da IES" >>),
      Visualization("Quantidade Total de Técnicos por Mantenedora",
                    << "Mantenedora", "Total de Técnicos" >>),
      Visualization("Quantidade de Docentes por Sexo e Organização Acadêmica",
                    << "Organização Acadêmica", "Docentes Feminino",
                       "Docentes Masculino" >>),
      Visualization("Distribuição de Instituições por Categoria Administrativa",
                    << "Categoria Administrativa" >>),
      Visualization("Total de Docentes por Nível de Formação",
                    docentes_cols_for_plot \o << "Tipo de Rede" >>),
      Visualization("Gráfico de Árvore",
                    << "Organização Acadêmica", "Total de Livros Eletrônicos" >>),
      Visualization("Tabela Detalhada das IES", group_cols \o measures) }

Rendered(V) ==
    HasElement(ui, "chart", V.name) \/ HasElement(ui, "dataframe", V.name)

Warned(V) == HasElement(ui, "warning", V.name)

\* C8: after a successful load a run ends without an unhandled exception,
\* whatever the table and the selection.
C8_RunCompletes == LoadedTable => exc = "none"

\* C9: a visualization whose columns are not all in the filtered view, or
\* whose filtered view is empty, is not rendered and a warning naming it is
\* emitted; a rendered visualization has no warning.
C9_SkippedVisualizationWarned ==
    (LoadedTable /\ exc = "none") =>
        \A V \in Visualizations :
            /\ (~HasAll(df_filtrado, V.cols) \/ empty(df_filtrado))
                  => (~Rendered(V) /\ Warned(V))
            /\ Rendered(V) => ~Warned(V)

\* the position of a label that selects one column
Pos(d, col) == CHOOSE p \in Positions(col, d.columns) : TRUE

\* C10: the filtered view holds exactly the rows of the table that equal the
\* selection in every filter not left at its 'all' entry, in the table's
\* order; a Município selection keeps only rows of that Município; the
\* distinct institutions of the view are at most those of the table.
C10_FilteredView ==
    (LoadedTable /\ exc = "none") =>
        /\ df_filtrado.columns = df.columns
        /\ df_filtrado.data =
              SelectSeq(df.data,
                  LAMBDA row :
                      /\ organizacao_sel = Todas
                            \/ row[Pos(df, "Organização Acadêmica")] = organizacao_sel
                      /\ tipo_rede_sel = Todas
                            \/ row[Pos(df, "Tipo de Rede")] = tipo_rede_sel
                      /\ municipio_sel = Todos
                            \/ (~IsNa(municipio_sel)
                                /\ row[Pos(df, "Município")] = municipio_sel))
        /\ municipio_sel # Todos =>
              \A i \in DOMAIN df_filtrado.data :
                  df_filtrado.data[i][Pos(df, "Município")] = municipio_sel
        /\ \A i \in DOMAIN df_filtrado.data :
              \E a \in DOMAIN df.data : df_filtrado.data[i] = df.data[a]
        /\ total_ies <= nunique(df, "Nome da IES")
        /\ ~empty(df_filtrado) => total_ies = nunique(df_filtrado, "Nome da IES")

C10_Witness ==
    /\ LoadedTable
    /\ exc = "none"
    /\ municipio_sel = Str("Brasília")
    /\ organizacao_sel = Todas
    /\ Len(df.data) = 2
    /\ Len(df_filtrado.data) = 1
    /\ nunique(df, "Nome da IES") = 2
    /\ total_ies = 1

(***************************************************************************)
(* Claims about the frame of the load and of the run.                      *)
(***************************************************************************)
\* the display name the rename table gives a source column
DisplayName(c) == IF c \in DOMAIN rename_columns THEN rename_columns[c] ELSE c

\* C11: after a successful load the columns are those of the file, each under
\* the display name the rename table gives it or under its own name when the
\* table does not name it: as many columns as the file has, no two with the
\* same name, and the cells of every column the later steps do not rewrite
\* are those read from the file.
C11_RenameOneToOne ==
    Succeeded =>
        /\ Len(df.columns) = Len(file.header)
        /\ \A j \in DOMAIN df.columns : df.columns[j] = DisplayName(file.header[j])
        /\ \A a, b \in DOMAIN df.columns : a # b => df.columns[a] # df.columns[b]
        /\ \A i \in DOMAIN df.data : \A j \in DOMAIN df.columns :
              (df.columns[j] \notin Range(numeric_cols_to_fill)
                                    \cup Range(categorical_cols))
                  => df.data[i][j] = read_csv(file).data[i][j]

\* C12: a run does not modify the cached table: a run that finds an entry
\* leaves the entry as it was, and whatever the selection, the filters, the
\* metrics and the charts, the table the run holds at its end is the table of
\* the entry; the filtered view is another table.
C12_CachedTableNotModified ==
    [][(pc' = "ran") =>
          /\ cache.full => cache' = cache
          /\ cache'.full /\ df' = cache'.df]_vars

C12_Witness ==
    /\ pc = "ran"
    /\ ~executed
    /\ exc = "none"
    /\ municipio_sel = Str("Brasília")
    /\ Len(df.data) = 2
    /\ Len(df_filtrado.data) = 1
    /\ df = cache.df

\* C13: a failed load is cached like a successful one: the run in which the
\* loader fails leaves an entry holding the empty table, and while that
\* entry exists every run returns it without running the loader and shows
\* the degraded page, whatever the file holds by then; a run after the cache
\* was cleared loads the file in place.
C13_FailedLoadCached ==
    [][(pc' = "ran") =>
          /\ (executed' /\ LoadFails(source'))
                => (cache'.full /\ cache'.df = EmptyDataFrame)
          /\ (cache.full /\ cache.df = EmptyDataFrame)
                => /\ ~executed'
                   /\ cache' = cache
                   /\ df' = EmptyDataFrame
                   /\ erros' = cache.erros
                   /\ Degraded'
          /\ (~cache.full /\ ~LoadFails(file) /\ Len(file.lines) > 0)
                => (executed' /\ Len(df'.data) = Len(file.lines))]_vars

\* the file was corrected after a failed load and the run still shows the
\* cached failure
C13_Witness ==
    /\ pc = "ran"
    /\ ~executed
    /\ LoadFails(source)
    /\ ~LoadFails(file)
    /\ Len(file.lines) > 0
    /\ df = EmptyDataFrame
    /\ HasElement(erros, "error", "não foi encontrado")
    /\ Degraded

\* a table with no row (or no column)
NoRows(d) == Len(d.data) = 0 \/ Len(d.columns) = 0

CouldNotLoad == HasElement(ui, "info", "O aplicativo não pôde carregar os dados")

\* C14: a run shows the could-not-load message exactly when the table the
\* load returned has no row, and then shows nothing else: no filter, metric
\* or chart.  A file that exists, parses, has every required column and no
\* line is loaded without any message and is shown as a failed load.
C14_EmptyTableShownAsFailure ==
    (pc = "ran") =>
        /\ CouldNotLoad <=> NoRows(df)
        /\ NoRows(df) =>
              /\ Degraded
              /\ df_filtrado = EmptyDataFrame
              /\ organizacao_sel = Todas /\ tipo_rede_sel = Todas
              /\ municipio_sel = Todos
        /\ erros # << >> => CouldNotLoad
        /\ (executed /\ ~LoadFails(source) /\ Len(source.lines) = 0)
              => (erros = << >> /\ CouldNotLoad)

C14_Witness ==
    /\ pc = "ran"
    /\ executed
    /\ source = CsvFile(FullHeader, << >>)
    /\ erros = << >>
    /\ Len(df.columns) = Len(required_original_cols)
    /\ exc = "none"
    /\ Degraded

\* the required columns no step of the load names
AgeBracketCols ==
    { "QT_DOC_EX_0_29", "QT_DOC_EX_30_34", "QT_DOC_EX_35_39", "QT_DOC_EX_40_44",
      "QT_DOC_EX_45_49", "QT_DOC_EX_50_54", "QT_DOC_EX_55_59",
      "QT_DOC_EX_60_MAIS" }

UntouchedCols == AgeBracketCols \cup {"CO_MUNICIPIO_IES"}

\* C15: the eight age-bracket columns and CO_MUNICIPIO_IES are required (a
\* file that lacks one is rejected), and after a successful load each keeps
\* its source name and every cell is the value read from the file: an empty
\* cell stays missing and a cell that is no number keeps its text; neither
\* becomes 0.
C15_AgeBracketColsUntouched ==
    /\ (pc = "loaded" /\ file.exists /\ file.parses
           /\ \E c \in UntouchedCols : ~In(c, file.header))
          => (df = EmptyDataFrame /\ erros # << >>)
    /\ Succeeded =>
          \A j \in DOMAIN file.header :
              file.header[j] \in UntouchedCols =>
                  /\ df.columns[j] = file.header[j]
                  /\ \A i \in DOMAIN df.data :
                        LET t == file.lines[i][j]
                        IN  /\ df.data[i][j] = read_csv(file).data[i][j]
                            /\ t \in NaTokens => IsNa(df.data[i][j])
                            /\ (t \notin NaTokens /\ t \notin DOMAIN NumVal)
                                  => df.data[i][j] = Str(t)
                            /\ t \in DOMAIN NumVal
                                  => df.data[i][j] \in {Num(NumVal[t]), Str(t)}

C15_Witness ==
    /\ Succeeded
    /\ Len(df.data) = 2
    /\ \E j, k \in DOMAIN df.columns :
          /\ df.columns[j] = "QT_DOC_EX_0_29"
          /\ file.lines[1][j] = "x" /\ df.data[1][j] = Str("x")
          /\ file.lines[2][j] = "" /\ df.data[2][j] = NaN
          /\ df.columns[k] = "Total de Docentes"
          /\ file.lines[1][k] = "x" /\ df.data[1][k] = Num(0)
          /\ file.lines[2][k] = "" /\ df.data[2][k] = Num(0)

=============================================================================
